---- MODULE Spec2Model ----
(***************************************************************************)
(* Model of python/dataset/sort_txt_by_seq_len.py (the length-sorting and  *)
(* bucketing stage) and of python/dataset/generate_dataset.py (the caller  *)
(* that merges the manifests, sorts train.txt and stores corpus.json).     *)
(*                                                                         *)
(* A manifest line is a sequence of one-character strings                  *)
(*     <wav path> " " <label ... "\n">                                     *)
(* so that line.split(' ', 1) and '{} {}'.format(p, l) are computed on the *)
(* characters.  The audio corpus is a function from wav path to the        *)
(* feature length load_sample measures for it.                             *)
(***************************************************************************)
EXTENDS Integers, Sequences, FiniteSets, TLC

VARIABLES
    pc,            \* position of the running sort_txt_by_seq_len call
    file_exists,   \* whether a file exists at txt_path
    file,          \* the lines of the file at txt_path (<<>> when missing)
    orig,          \* the lines txt_path held when the current call started
    corpus,        \* wav path -> feature length measured by load_sample
    num_buckets,   \* argument num_buckets
    max_length,    \* argument max_length
    lines,         \* local `lines` (f.readlines())
    pending,       \* chunks handed to the pool whose result has not arrived
    buffer,        \* local `buffer`
    removed,       \* <<k>> once 'Removed k samples' was printed, else <<>>
    buckets,       \* local `buckets` (sorted list)
    total_length,  \* local `total_length`
    result,        \* <<>> or <<[boundaries, total_length]>>: the returned tuple
    error,         \* "" or the exception the call ended with
    run,           \* 1 for the first call on txt_path, 2 for the call repeated
    first_out,     \* what the first call wrote (kept for the second call)
    sources,       \* generate_dataset: the manifests the loaders produced
    test_txt,      \* generate_dataset: merged test.txt
    dev_txt,       \* generate_dataset: merged dev.txt
    corpus_json    \* <<>> or <<record>> passed to store_corpus_json

vars == <<pc, file_exists, file, orig, corpus, num_buckets, max_length, lines,
          pending, buffer, removed, buckets, total_length, result, error,
          run, first_out, sources, test_txt, dev_txt, corpus_json>>

genVars == <<sources, test_txt, dev_txt, corpus_json>>

-----------------------------------------------------------------------------
(* Bounds of the model. *)

\* Largest number of manifest lines of a drawn input (two chunks of 4).
MaxLines == 5
\* Feature lengths of drawn inputs are 0..MaxFeatLen.
MaxFeatLen == 2
\* Drawn num_buckets arguments are 0..MaxNumBuckets.
MaxNumBuckets == 2
\* Drawn max_length arguments are 0 (keep everything) and MaxLengthArg.
MaxLengthArg == 1

(* Program constants. *)

\* chunksize=4 of pool.imap_unordered.
chunksize == 4
\* Default of the parameter num_buckets.
DefaultNumBuckets == 64
\* Default of the parameter max_length.
DefaultMaxLength == 1700

-----------------------------------------------------------------------------
(* Manifest lines as characters. *)

DigitChar == <<"0", "1", "2", "3", "4", "5", "6", "7", "8", "9">>

RECURSIVE Dec(_)
Dec(i) == IF i < 10 THEN <<DigitChar[i + 1]>>
          ELSE Dec(i \div 10) \o <<DigitChar[(i % 10) + 1]>>

\* The wav path of sample i, e.g. w12.
Path(i) == <<"w">> \o Dec(i)

\* The transcript of sample i with its newline; every second one has two words.
Label(i) == IF i % 2 = 0 THEN <<"a", " ", "b", "\n">> ELSE <<"c", "\n">>

\* `path/to/sample.wav transcription of the sample wave file<new_line>`
Line(i) == Path(i) \o <<" ">> \o Label(i)

Manifest(n) == [i \in 1..n |-> Line(i)]

Range(s) == {s[i] : i \in 1..Len(s)}

Min2(a, b) == IF a < b THEN a ELSE b

-----------------------------------------------------------------------------
(* _feature_length *)

\* Index of the first " " of a line (0 when there is none).
FirstSpace(line) ==
    IF \E k \in 1..Len(line) : line[k] = " "
    THEN CHOOSE k \in 1..Len(line) :
            line[k] = " " /\ \A j \in 1..(k - 1) : line[j] /= " "
    ELSE 0

\* line.split(' ', 1)
split(line) ==
    LET k == FirstSpace(line)
    IN  <<SubSeq(line, 1, k - 1), SubSeq(line, k + 1, Len(line))>>

\* int(load_sample(os.path.join(CORPUS_DIR, wav_path))[1])
load_sample(wav_path) == corpus[wav_path]

\* _feature_length(line): (length, wav_path, label)
feature_length(line) ==
    LET parts == split(line)
    IN  <<load_sample(parts[1]), parts[1], parts[2]>>

-----------------------------------------------------------------------------
(* The pool: imap_unordered(_feature_length, lines, chunksize=4) *)

NumChunks(n) == (n + chunksize - 1) \div chunksize

\* The lines of chunk c, in manifest order.
ChunkItems(ls, c) ==
    SubSeq(ls, (c - 1) * chunksize + 1, Min2(c * chunksize, Len(ls)))

\* The results of one chunk, in the chunk's order.
ChunkResults(ls, c) ==
    LET items == ChunkItems(ls, c)
    IN  [i \in 1..Len(items) |-> feature_length(items[i])]

-----------------------------------------------------------------------------
(* sorted(buffer, key=lambda x: x[0]): a stable sort on the length *)

\* The lengths that occur in buf.
keys_of(buf) == {buf[i][1] : i \in 1..Len(buf)}

\* A stable sort: for each length in ascending order, the entries of that
\* length in the order they have in buf.
RECURSIVE SortStable(_, _)
SortStable(buf, keys) ==
    IF keys = {} THEN <<>>
    ELSE LET m == CHOOSE x \in keys : \A y \in keys : x <= y
         IN  SelectSeq(buf, LAMBDA e : e[1] = m) \o SortStable(buf, keys \ {m})

RECURSIVE SortDescending(_, _)
SortDescending(buf, keys) ==
    IF keys = {} THEN <<>>
    ELSE LET m == CHOOSE x \in keys : \A y \in keys : x >= y
         IN  SelectSeq(buf, LAMBDA e : e[1] = m) \o SortDescending(buf, keys \ {m})

\* The buffer left in arrival order.
sorted_not_applied(buf) == buf

\* The buffer sorted by length, longest first.
sorted_reversed(buf) == SortDescending(buf, keys_of(buf))

sorted(buf) == SortStable(buf, keys_of(buf))

-----------------------------------------------------------------------------
(* Remove samples longer than max_length *)

keeps_at_threshold(s, maxlen) == s[1] <= maxlen

\* s[0] < max_length
keeps(s, maxlen) == s[1] < maxlen

\* [s for s in buffer if s[0] < max_length]
filtered(buf, maxlen) == SelectSeq(buf, LAMBDA s : keeps(s, maxlen))

-----------------------------------------------------------------------------
(* Calculate optimal bucket sizes *)

\* lengths = [l[0] for l in buffer]
lengths_of(buf) == [i \in 1..Len(buf) |-> buf[i][1]]

step_clamped(count, nb) == IF count \div nb < 1 THEN 1 ELSE count \div nb

\* step = len(lengths) // num_buckets   (nb /= 0)
step_of(count, nb) == count \div nb

\* for i in range(step, len(lengths), step): buckets.add(lengths[i])
\* (i is the 0-based index of the next visit; st > 0)
RECURSIVE bucket_walk(_, _, _, _)
bucket_walk(lens, i, st, acc) ==
    IF i >= Len(lens) THEN acc
    ELSE bucket_walk(lens, i + st, st, acc \cup {lens[i + 1]})

\* buckets = list(buckets); buckets.sort()
RECURSIVE sorted_list(_)
sorted_list(S) ==
    IF S = {} THEN <<>>
    ELSE LET m == CHOOSE x \in S : \A y \in S : x <= y
         IN  <<m>> \o sorted_list(S \ {m})

all_buckets(bs) == bs

\* buckets[: -1]
drop_last(bs) == IF Len(bs) = 0 THEN <<>> ELSE SubSeq(bs, 1, Len(bs) - 1)

-----------------------------------------------------------------------------
(* Total corpus length, and the lines written back *)

RECURSIVE sum_lengths(_)
sum_lengths(buf) ==
    IF buf = <<>> THEN 0 ELSE Head(buf)[1] + sum_lengths(Tail(buf))

\* sum(map(lambda x: x[0], buffer)) / 0.1
total_length_of(buf) == sum_lengths(buf) * 10

\* '{} {}'.format(p, l)
format(p, l) == p \o <<" ">> \o l

\* buffer = ['{} {}'.format(p, l) for _, p, l in buffer]
formatted(buf) == [i \in 1..Len(buf) |-> format(buf[i][2], buf[i][3])]

-----------------------------------------------------------------------------
(* Lines 48-74 of sort_txt_by_seq_len as one computation on the collected  *)
(* buffer: what is printed, what the locals hold, and how it ends.         *)
compute(buf, nb, maxlen) ==
    LET s    == sorted(buf)
        k    == IF maxlen > 0 THEN filtered(s, maxlen) ELSE s
        rem  == IF maxlen > 0 THEN <<Len(s) - Len(k)>> ELSE <<>>
        lens == lengths_of(k)
    IN  IF nb = 0
        THEN [error |-> "ZeroDivisionError", removed |-> rem, buffer |-> k,
              buckets |-> <<>>, total_length |-> 0]
        ELSE IF step_of(Len(lens), nb) = 0
        THEN [error |-> "ValueError", removed |-> rem, buffer |-> k,
              buckets |-> <<>>, total_length |-> 0]
        ELSE [error |-> "", removed |-> rem, buffer |-> formatted(k),
              buckets |-> sorted_list(
                  bucket_walk(lens, step_of(Len(lens), nb),
                              step_of(Len(lens), nb), {})),
              total_length |-> total_length_of(k)]

-----------------------------------------------------------------------------
(* storage.delete_file_if_exists(txt_path): the file is gone afterwards. *)
delete_file_if_exists(exists, content) == [exists |-> FALSE, content |-> <<>>]

-----------------------------------------------------------------------------
(* Initial states: a call sort_txt_by_seq_len(txt_path, num_buckets,       *)
(* max_length) on a manifest of n lines whose audio files have any lengths. *)

Paths(n) == {Path(i) : i \in 1..n}

NoGen ==
    /\ sources = <<>>
    /\ test_txt = <<>>
    /\ dev_txt = <<>>
    /\ corpus_json = <<>>

Locals0 ==
    /\ lines = <<>>
    /\ pending = {}
    /\ buffer = <<>>
    /\ removed = <<>>
    /\ buckets = <<>>
    /\ total_length = 0
    /\ result = <<>>
    /\ error = ""

InitDrawn ==
    /\ \E n \in 0..MaxLines :
          /\ file = Manifest(n)
          /\ orig = Manifest(n)
          /\ corpus \in [Paths(n) -> 0..MaxFeatLen]
    /\ num_buckets \in 0..MaxNumBuckets
    /\ max_length \in {0, MaxLengthArg}

\* The manifest of ten lines whose tenth sample measures exactly max_length,
\* sorted into any number of buckets up to the number of lines.
ScenarioLengths == <<5, 3, 8, 1, 9, 2, 7, 4, 6, DefaultMaxLength>>

InitScenario ==
    /\ file = Manifest(Len(ScenarioLengths))
    /\ orig = Manifest(Len(ScenarioLengths))
    /\ corpus = [p \in Paths(Len(ScenarioLengths)) |->
                    ScenarioLengths[CHOOSE i \in 1..Len(ScenarioLengths) : Path(i) = p]]
    /\ num_buckets \in 1..Len(ScenarioLengths)
    /\ max_length = DefaultMaxLength

Init ==
    /\ pc = "start"
    /\ file_exists = TRUE
    /\ run = 1
    /\ first_out = <<>>
    /\ Locals0
    /\ NoGen
    /\ (InitDrawn \/ InitScenario)

-----------------------------------------------------------------------------
(* sort_txt_by_seq_len, step by step.  The steps are cut where the call    *)
(* touches the file at txt_path or receives a result from the pool.        *)

\* with open(txt_path, 'r') as f: lines = f.readlines(); the chunks are
\* handed to the pool.
ReadLines ==
    /\ pc = "start"
    /\ lines' = file
    /\ pending' = 1..NumChunks(Len(file))
    /\ buffer' = <<>>
    /\ pc' = "scan"
    /\ UNCHANGED <<file_exists, file, orig, corpus, num_buckets, max_length,
                   removed, buckets, total_length, result, error, run,
                   first_out, genVars>>

\* A probe of chunk c raised: the chunk's result is the exception, which the
\* iteration re-raises in the caller; the pool is torn down; the call ends.
ChunkFailSkipped(c) ==
    /\ pc = "scan"
    /\ c \in pending
    /\ pending' = pending \ {c}
    /\ error' = "SampleReadError"
    /\ UNCHANGED <<pc, file_exists, file, orig, corpus, num_buckets, max_length,
                   lines, buffer, removed, buckets, total_length, result, run,
                   first_out, genVars>>

ChunkFail(c) ==
    /\ pc = "scan"
    /\ c \in pending
    /\ pc' = "failed"
    /\ error' = "SampleReadError"
    /\ UNCHANGED <<file_exists, file, orig, corpus, num_buckets, max_length,
                   lines, pending, buffer, removed, buckets, total_length,
                   result, run, first_out, genVars>>

\* The results of chunk c arrive, whichever chunk completes next:
\* lock.acquire(); buffer.append(result); lock.release()  for each of them.
ChunkDone(c) ==
    /\ pc = "scan"
    /\ c \in pending
    /\ pending' = pending \ {c}
    /\ buffer' = buffer \o ChunkResults(lines, c)
    /\ UNCHANGED <<pc, file_exists, file, orig, corpus, num_buckets, max_length,
                   lines, removed, buckets, total_length, result, error, run,
                   first_out, genVars>>

\* Lines 48-74: sort, filter, bucket sizes, total length, strip the length.
\* All of it is local; 0 // 0 and range(.., .., 0) raise.
Compute ==
    /\ pc = "scan"
    /\ pending = {}
    /\ LET c == compute(buffer, num_buckets, max_length)
       IN  /\ removed' = c.removed
           /\ buffer' = c.buffer
           /\ buckets' = c.buckets
           /\ total_length' = c.total_length
           /\ IF c.error = ""
              THEN pc' = "computed" /\ UNCHANGED error
              ELSE pc' = "failed" /\ error' = c.error
    /\ UNCHANGED <<file_exists, file, orig, corpus, num_buckets, max_length,
                   lines, pending, result, run, first_out, genVars>>

\* storage.delete_file_if_exists(txt_path)
Delete ==
    /\ pc = "computed"
    /\ LET d == delete_file_if_exists(file_exists, file)
       IN  /\ file_exists' = d.exists
           /\ file' = d.content
    /\ pc' = "deleted"
    /\ UNCHANGED <<orig, corpus, num_buckets, max_length, lines, pending,
                   buffer, removed, buckets, total_length, result, error, run,
                   first_out, genVars>>

\* with open(txt_path, 'w') as f: the file is created empty.
OpenWrite ==
    /\ pc = "deleted"
    /\ file_exists' = TRUE
    /\ file' = <<>>
    /\ pc' = "writing"
    /\ UNCHANGED <<orig, corpus, num_buckets, max_length, lines, pending,
                   buffer, removed, buckets, total_length, result, error, run,
                   first_out, genVars>>

\* f.writelines(buffer): the lines reach the file one after the other.
WriteLine ==
    /\ pc = "writing"
    /\ Len(file) < Len(buffer)
    /\ file' = Append(file, buffer[Len(file) + 1])
    /\ UNCHANGED <<pc, file_exists, orig, corpus, num_buckets, max_length,
                   lines, pending, buffer, removed, buckets, total_length,
                   result, error, run, first_out, genVars>>

\* The file is closed, read back for the message, and the call returns
\* buckets[: -1], total_length.
Return ==
    /\ pc = "writing"
    /\ Len(file) = Len(buffer)
    /\ result' = <<[boundaries |-> drop_last(buckets),
                    total_length |-> total_length]>>
    /\ pc' = "done"
    /\ UNCHANGED <<file_exists, file, orig, corpus, num_buckets, max_length,
                   lines, pending, buffer, removed, buckets, total_length,
                   error, run, first_out, genVars>>

\* The process dies: what it held in memory is gone, the file stays as it is.
Crash ==
    /\ pc \in {"start", "scan", "computed", "deleted", "writing"}
    /\ pc' = "crashed"
    /\ lines' = <<>>
    /\ pending' = {}
    /\ buffer' = <<>>
    /\ removed' = <<>>
    /\ buckets' = <<>>
    /\ total_length' = 0
    /\ UNCHANGED <<file_exists, file, orig, corpus, num_buckets, max_length,
                   result, error, run, first_out, genVars>>

\* sort_txt_by_seq_len is called again on the file it has just written, with
\* the same arguments.
CallAgain ==
    /\ pc = "done"
    /\ run = 1
    /\ run' = 2
    /\ first_out' = file
    /\ orig' = file
    /\ pc' = "start"
    /\ lines' = <<>>
    /\ pending' = {}
    /\ buffer' = <<>>
    /\ removed' = <<>>
    /\ buckets' = <<>>
    /\ total_length' = 0
    /\ result' = <<>>
    /\ UNCHANGED <<file_exists, file, corpus, num_buckets, max_length, error,
                   genVars>>

Next ==
    \/ ReadLines
    \/ \E c \in pending : ChunkDone(c)
    \/ \E c \in pending : ChunkFail(c)
    \/ Compute
    \/ Delete
    \/ OpenWrite
    \/ WriteLine
    \/ Return
    \/ Crash
    \/ CallAgain

Spec == Init /\ [][Next]_vars

-----------------------------------------------------------------------------
(* generate_dataset: the loaders' manifests are merged into train.txt,     *)
(* test.txt and dev.txt, train.txt is sorted with the default arguments,   *)
(* and the metadata record is stored.  The call of sort_txt_by_seq_len is  *)
(* taken whole here: the arrival order of its chunks is an input.          *)

\* Sizes of the manifests the loaders hand over: the five train manifests add
\* up to DefaultNumBuckets - 1 .. DefaultNumBuckets + 2 lines.
OtherTrainSize == (DefaultNumBuckets + 1) \div 5
CvTrainSizes == {OtherTrainSize - 1, OtherTrainSize}
TimitTrainSizes == {OtherTrainSize - 1, OtherTrainSize, OtherTrainSize + 1}
CvTestSizes == {0, 1}
LsTestSizes == {1, 2}
LsDevSizes == {0, 1, 2}
GenTrainMax == DefaultNumBuckets + 2
\* Sample numbers of the test and dev lines start after these.
TestBase == GenTrainMax + 4
DevBase == TestBase + 4
\* The train samples measure GenLenBase + a residue modulo GenLenMod, all
\* different, the largest possible one being exactly DefaultMaxLength.
GenLenMod == GenTrainMax + 1
GenLenBase == DefaultMaxLength - GenTrainMax
GenLenStride == 5
GenOffsets == 0..3

\* Lines first..(first + n - 1) of the corpus as one manifest.
ManifestFrom(first, n) == [i \in 1..n |-> Line(first + i - 1)]

RECURSIVE concat(_)
concat(files) == IF files = <<>> THEN <<>> ELSE Head(files) \o concat(Tail(files))

\* _merge_txt_files(txt_files, target): every file is read and appended; a
\* path that cannot be opened raises.  Returns the target content and
\* len(buffer).
merge_txt_files(txt_files) ==
    IF \E i \in 1..Len(txt_files) : ~txt_files[i].exists
    THEN [error |-> "FileNotFoundError", content |-> <<>>, count |-> 0]
    ELSE [error |-> "",
          content |-> concat([i \in 1..Len(txt_files) |-> txt_files[i].content]),
          count |-> Len(concat([i \in 1..Len(txt_files) |-> txt_files[i].content]))]

TxtFile(content) == [exists |-> TRUE, content |-> content]
\* timit_train = _ = '' when use_timit is False: no file at that path.
NoTxtFile == [exists |-> FALSE, content |-> <<>>]

\* The results of all chunks of ls, in the order `order` of chunk numbers.
RECURSIVE arrival(_, _)
arrival(ls, order) ==
    IF order = <<>> THEN <<>>
    ELSE ChunkResults(ls, Head(order)) \o arrival(ls, Tail(order))

\* Arrival orders drawn for a whole call: in order, and last chunk first.
ArrivalOrders(n) ==
    {[i \in 1..NumChunks(n) |-> i], [i \in 1..NumChunks(n) |-> NumChunks(n) + 1 - i]}

\* store_corpus_json(train_size, test_size, dev_size, boundaries, train_length)
store_corpus_json(train_size, test_size, dev_size, boundaries, train_length) ==
    [train_size |-> train_size, test_size |-> test_size, dev_size |-> dev_size,
     boundaries |-> boundaries, train_length |-> train_length]

InitGen ==
    /\ pc = "gen"
    /\ file_exists = FALSE
    /\ file = <<>>
    /\ orig = <<>>
    /\ run = 1
    /\ first_out = <<>>
    /\ Locals0
    /\ num_buckets = DefaultNumBuckets
    /\ max_length = DefaultMaxLength
    /\ \E k \in GenOffsets :
          corpus = [p \in Paths(GenTrainMax) |->
                      GenLenBase + ((GenLenStride *
                          (CHOOSE i \in 1..GenTrainMax : Path(i) = p) + k) % GenLenMod)]
    /\ \E a \in CvTrainSizes, e \in TimitTrainSizes, t1 \in CvTestSizes,
          t2 \in LsTestSizes, d \in LsDevSizes, use_timit \in BOOLEAN :
          sources = [cv_train      |-> TxtFile(ManifestFrom(1, a)),
                     ls_train      |-> TxtFile(ManifestFrom(a + 1, OtherTrainSize)),
                     tatoeba_train |-> TxtFile(ManifestFrom(a + OtherTrainSize + 1, OtherTrainSize)),
                     ted_train     |-> TxtFile(ManifestFrom(a + 2 * OtherTrainSize + 1, OtherTrainSize)),
                     timit_train   |-> IF use_timit
                                       THEN TxtFile(ManifestFrom(a + 3 * OtherTrainSize + 1, e))
                                       ELSE NoTxtFile,
                     cv_test       |-> TxtFile(ManifestFrom(TestBase + 1, t1)),
                     ls_test       |-> TxtFile(ManifestFrom(TestBase + t1 + 1, t2)),
                     ls_dev        |-> TxtFile(ManifestFrom(DevBase + 1, d))]
    /\ test_txt = <<>>
    /\ dev_txt = <<>>
    /\ corpus_json = <<>>

\* generate_dataset(), from the merge on.  `fails` says whether a probe of
\* the scan raises, `order` is the arrival order of the chunks.
GenerateDataset ==
    /\ pc = "gen"
    /\ LET train == merge_txt_files(<<sources.cv_train, sources.ls_train,
                                      sources.tatoeba_train, sources.ted_train,
                                      sources.timit_train>>)
           test  == merge_txt_files(<<sources.cv_test, sources.ls_test>>)
           dev   == merge_txt_files(<<sources.ls_dev>>)
       IN  IF train.error /= ""
           THEN \* the first merge raised: nothing was written
                /\ pc' = "failed"
                /\ error' = train.error
                /\ UNCHANGED <<file_exists, file, orig, removed, result,
                               test_txt, dev_txt, corpus_json>>
           ELSE \E fails \in BOOLEAN, order \in ArrivalOrders(train.count) :
                LET c == compute(arrival(train.content, order),
                                 num_buckets, max_length)
                    train_len == c.total_length
                IN  /\ test_txt' = test.content
                    /\ dev_txt' = dev.content
                    /\ orig' = train.content
                    /\ file_exists' = TRUE
                    /\ IF fails
                       THEN /\ pc' = "failed"
                            /\ error' = "SampleReadError"
                            /\ file' = train.content
                            /\ UNCHANGED <<removed, result, corpus_json>>
                       ELSE IF c.error /= ""
                       THEN /\ pc' = "failed"
                            /\ error' = c.error
                            /\ file' = train.content
                            /\ removed' = c.removed
                            /\ UNCHANGED <<result, corpus_json>>
                       ELSE /\ pc' = "gen_done"
                            /\ file' = c.buffer
                            /\ removed' = c.removed
                            /\ result' = <<[boundaries |-> drop_last(c.buckets),
                                            total_length |-> c.total_length]>>
                            /\ corpus_json' = <<store_corpus_json(
                                   train_len, test.count, dev.count,
                                   drop_last(c.buckets), train_len)>>
                            /\ UNCHANGED error
    /\ UNCHANGED <<corpus, num_buckets, max_length, lines, pending, buffer,
                   buckets, total_length, run, first_out, sources>>

NextGen == GenerateDataset

SpecGen == InitGen /\ [][NextGen]_vars

-----------------------------------------------------------------------------
(* What the properties speak about. *)

\* The sample a manifest line belongs to, and its measured length.
SampleOf(line) == CHOOSE i \in 1..(DevBase + 4) : Line(i) = line
MeasuredLen(line) == corpus[Path(SampleOf(line))]

Count(v, s) == Cardinality({i \in 1..Len(s) : s[i] = v})

\* f holds exactly the lines of the original manifest that are to be kept,
\* each as often as the original holds it, unchanged.
KeptExactly(f) ==
    \A v \in Range(orig) \cup Range(f) :
        Count(v, f) = IF max_length = 0 \/ MeasuredLen(v) < max_length
                      THEN Count(v, orig) ELSE 0

\* f is in non-decreasing order of measured length.
SortedByLength(f) ==
    \A i, j \in 1..Len(f) : i < j => MeasuredLen(f[i]) <= MeasuredLen(f[j])

Finished == pc = "done"

C2_SortedOutput == Finished => SortedByLength(file)

\* A later chunk arrived first: two samples of equal length are written in
\* the reverse of their manifest order, between shorter and longer ones.
C2_Witness ==
    /\ Finished
    /\ run = 1
    /\ file /= orig
    /\ \E i, j \in 1..Len(file) :
          /\ i < j
          /\ SampleOf(file[i]) > SampleOf(file[j])
          /\ MeasuredLen(file[i]) = MeasuredLen(file[j])
    /\ MeasuredLen(file[1]) < MeasuredLen(file[Len(file)])

\* C3: for num_buckets > 0, a call that completes returns at most
\* num_buckets - 1 boundaries.
C3_BoundaryCount ==
    (Finished /\ num_buckets > 0) =>
        Len(result[1].boundaries) <= num_buckets - 1

\* C4: the returned boundaries are the distinct lengths found at indices
\* step, 2*step, ... (< count) of the sorted kept lengths, strictly
\* increasing, without the largest of them.
C4_Boundaries ==
    Finished =>
        LET count == Len(file)
            st    == count \div num_buckets
            S     == {MeasuredLen(file[k * st + 1]) :
                         k \in {k \in 1..count : k * st < count}}
            b     == result[1].boundaries
        IN  /\ st >= 1
            /\ \A i, j \in 1..Len(b) : i < j => b[i] < b[j]
            /\ Range(b) = {x \in S : \E y \in S : x < y}

\* Lengths 1..9 with num_buckets = 3: indices 3 and 6 are visited and one
\* boundary is returned.
C4_Witness ==
    /\ Finished
    /\ run = 1
    /\ num_buckets = 3
    /\ Len(file) = 9
    /\ \A i \in 1..9 : MeasuredLen(file[i]) = i
    /\ result[1].boundaries = <<4>>

\* The call is past the boundary calculation (buffer holds the kept samples).
PastBuckets == pc \in {"computed", "deleted", "writing", "done"}
BucketsFailed == pc = "failed" /\ error \in {"ValueError", "ZeroDivisionError"}

\* C5 as stated: with num_buckets >= the number of kept samples, equality
\* included, the boundary calculation ends in an error.
C5_ErrorFromEquality ==
    ((PastBuckets \/ BucketsFailed) /\ num_buckets >= Len(buffer)) =>
        (BucketsFailed /\ result = <<>> /\ buckets = <<>>)

\* C5 amended: with num_buckets strictly greater than the number of kept
\* samples the boundary calculation ends in an error and neither collects nor
\* returns boundaries; with num_buckets equal to that number (at least 1)
\* the stride is 1 and the call goes on to return boundaries.
C5_ErrorWhenGreater ==
    /\ ((PastBuckets \/ BucketsFailed) /\ num_buckets > Len(buffer)) =>
          (BucketsFailed /\ result = <<>> /\ buckets = <<>> /\ file = orig)
    /\ ((PastBuckets \/ BucketsFailed) /\ num_buckets = Len(buffer)
            /\ num_buckets >= 1) => PastBuckets

C5_Witness ==
    /\ BucketsFailed
    /\ error = "ValueError"
    /\ Len(buffer) >= 1
    /\ num_buckets > Len(buffer)

\* C6: on an empty manifest (num_buckets > 0) the call does not fail; when
\* it has ended, the manifest is empty, total_length is 0 and there are no
\* boundaries.
C6_EmptyInputCompletes ==
    (orig = <<>> /\ run = 1 /\ num_buckets > 0) =>
        /\ pc /= "failed"
        /\ Finished =>
              /\ file = <<>>
              /\ result = <<[boundaries |-> <<>>, total_length |-> 0]>>

\* C7: once a probe has failed the call has failed, and the manifest is as it
\* was; and the manifest is touched only when every chunk has arrived and no
\* probe has failed.
C7_ProbeFailure ==
    /\ error = "SampleReadError" =>
          (pc = "failed" /\ file_exists /\ file = orig /\ result = <<>>)
    /\ pc \in {"start", "scan", "computed", "failed"} =>
          (file_exists /\ file = orig)
    /\ pc \in {"deleted", "writing", "done"} =>
          (pending = {} /\ error = "")

\* A probe fails after another chunk has been collected and while a third
\* one is still out.
C7_Witness ==
    /\ error = "SampleReadError"
    /\ pc = "failed"
    /\ buffer /= <<>>
    /\ Cardinality(pending) >= 2

\* C8: the file at txt_path always exists and holds either the complete
\* original manifest or the complete sorted manifest.
C8_NeverPartial ==
    /\ file_exists
    /\ \/ file = orig
       \/ KeptExactly(file) /\ SortedByLength(file)

\* The line at position i of f is the only one of its length.
UniqueLength(f, i) ==
    \A j \in 1..Len(f) : j /= i => MeasuredLen(f[j]) /= MeasuredLen(f[i])

NothingRemoved == removed \in {<<>>, <<0>>}

\* C9 as stated: the second call writes the lines in the order the first call
\* wrote them, and removes nothing.
C9_SameOrder ==
    (run = 2 /\ Finished) => (file = first_out /\ NothingRemoved)

\* C9 amended: the second call writes the same lines with the same sequence
\* of lengths and removes nothing; a line that is the only one of its length
\* keeps its position (lines that share a length may change places).
C9_SameUpToTies ==
    (run = 2 /\ Finished) =>
        /\ Len(file) = Len(first_out)
        /\ \A v \in Range(file) \cup Range(first_out) :
              Count(v, file) = Count(v, first_out)
        /\ \A i \in 1..Len(file) :
              /\ MeasuredLen(file[i]) = MeasuredLen(first_out[i])
              /\ UniqueLength(first_out, i) => file[i] = first_out[i]
        /\ NothingRemoved

\* The second call changed the order of lines that share a length and kept a
\* line of another length in place.
C9_Witness ==
    /\ run = 2
    /\ Finished
    /\ file /= first_out
    /\ \E i \in 1..Len(first_out) : UniqueLength(first_out, i)

\* The number of lines the loaders handed over for train.txt.
MergedTrainCount ==
    Len(sources.cv_train.content) + Len(sources.ls_train.content)
        + Len(sources.tatoeba_train.content) + Len(sources.ted_train.content)
        + Len(sources.timit_train.content)

\* C10: the stored record has train_size = the number of merged training
\* lines, test_size and dev_size = the merged test and dev line counts, and
\* train_length = the total length sort_txt_by_seq_len returned.
C10_RecordSizes ==
    corpus_json /= <<>> =>
        /\ corpus_json[1].train_size = MergedTrainCount
        /\ corpus_json[1].test_size = Len(test_txt)
        /\ corpus_json[1].dev_size = Len(dev_txt)
        /\ corpus_json[1].train_length = result[1].total_length

====
